---- MODULE Spec2Model ----
(***************************************************************************)
(* Model of src/runner.rs of rogcat: the lossy line decoder (LossyLines)   *)
(* and the process stream supervisor (Runner).                             *)
(*                                                                         *)
(* Three specifications share the decoder operators:                       *)
(*   DecSpec    one LossyLines over one byte source (decoder claims)       *)
(*   Spec       a Runner, its child process and the two pipes              *)
(*   MergeSpec  the merged stream of the two pipes under a consumer that   *)
(*              keeps polling (fairness between the pipes)                 *)
(***************************************************************************)
EXTENDS Integers, Sequences, FiniteSets, TLC

\* ------------------------------------------------------------------ bounds
MaxInput  == 3   \* bytes fed to the stand-alone decoder
MaxBytes  == 2   \* bytes one child writes, both pipes together
MaxEarly  == 0   \* bytes a respawned child has written before its first poll
MaxSpawns == 3   \* processes launched by one Runner (construction included)
MaxHead   == 2   \* largest head limit tried

\* --------------------------------------------------------------- constants
NL          == 10      \* b'\n'
REPLACEMENT == 65533   \* U+FFFD, what from_utf8_lossy substitutes

\* byte alphabets: newline, 'a', the two bytes of U+00E9, an always-invalid byte
DecBytes == {10, 97, 195, 169, 255}
SupBytes == {10, 97}

STDOUT == 1
STDERR == 2
Pipes  == {STDOUT, STDERR}

\* Option<usize>: <<>> is None, <<n>> is Some(n)
Heads == {<<>>} \cup {<<n>> : n \in 0..MaxHead}

\* ------------------------------------------------------------ the decoder
\* String::from_utf8_lossy on the bytes of the alphabets above: ASCII is kept,
\* a two-byte lead followed by a continuation byte is one code point, every
\* other byte is replaced by U+FFFD on its own.
IsCont(b)  == b >= 128 /\ b <= 191
IsLead2(b) == b >= 194 /\ b <= 223

RECURSIVE FromUtf8Lossy(_)
FromUtf8Lossy(bs) ==
    IF bs = <<>> THEN <<>>
    ELSE IF Head(bs) < 128 THEN <<Head(bs)>> \o FromUtf8Lossy(Tail(bs))
    ELSE IF IsLead2(Head(bs)) /\ Len(bs) >= 2 /\ IsCont(bs[2])
         THEN <<(Head(bs) - 192) * 64 + (bs[2] - 128)>>
              \o FromUtf8Lossy(Tail(Tail(bs)))
    ELSE <<REPLACEMENT>> \o FromUtf8Lossy(Tail(bs))

\* A byte source as the reader sees it: the bytes that can be read now and
\* whether the write end is closed.
FreshIo == [data |-> <<>>, closed |-> FALSE]

HasNL(bs)   == \E i \in 1..Len(bs) : bs[i] = NL
FirstNL(bs) == CHOOSE i \in 1..Len(bs) : bs[i] = NL /\ \A j \in 1..(i-1) : bs[j] # NL

\* BufRead::read_until(b'\n', buf) on a non-blocking source; fail says that
\* the read of the source fails with an I/O error.  The bytes read before the
\* call stops are appended to buf in every case.
ReadUntil(io, buf, fail) ==
    IF fail
    THEN [st |-> "Err", n |-> 0, io |-> io, buffer |-> buf]
    ELSE IF HasNL(io.data)
    THEN LET k == FirstNL(io.data)
         IN [st |-> "Ok", n |-> k,
             io |-> [io EXCEPT !.data = SubSeq(io.data, k + 1, Len(io.data))],
             buffer |-> buf \o SubSeq(io.data, 1, k)]
    ELSE [st |-> IF io.closed THEN "Ok" ELSE "WouldBlock",
          n |-> Len(io.data),
          io |-> [io EXCEPT !.data = <<>>],
          buffer |-> buf \o io.data]

\* the delimiter left in the line
PopNothing(buf) == buf

\* Vec::pop: drops the last element, whatever it is
Pop(buf) == IF buf = <<>> THEN <<>> ELSE SubSeq(buf, 1, Len(buf) - 1)

\* results of a stream poll
RItem(s)  == [kind |-> "Item", raw |-> s]
RNone     == [kind |-> "None", raw |-> <<>>]
RNotReady == [kind |-> "NotReady", raw |-> <<>>]
RErr      == [kind |-> "Err", raw |-> <<>>]

\* self.buffer.clear() forgotten
AfterReadKeepsBuffer(r) ==
    IF r.st = "WouldBlock" THEN [io |-> r.io, buffer |-> r.buffer, res |-> RNotReady]
    ELSE IF r.st = "Err" THEN [io |-> r.io, buffer |-> r.buffer, res |-> RErr]
    ELSE IF r.n = 0 /\ Len(r.buffer) = 0
         THEN [io |-> r.io, buffer |-> r.buffer, res |-> RNone]
    ELSE [io |-> r.io, buffer |-> r.buffer,
          res |-> RItem(FromUtf8Lossy(Pop(r.buffer)))]

\* LossyLines::poll after the read: r is what read_until returned and left
AfterRead(r) ==
    IF r.st = "WouldBlock" THEN [io |-> r.io, buffer |-> r.buffer, res |-> RNotReady]
    ELSE IF r.st = "Err" THEN [io |-> r.io, buffer |-> r.buffer, res |-> RErr]
    ELSE IF r.n = 0 /\ Len(r.buffer) = 0
         THEN [io |-> r.io, buffer |-> r.buffer, res |-> RNone]
    ELSE [io |-> r.io, buffer |-> <<>>,
          res |-> RItem(FromUtf8Lossy(Pop(r.buffer)))]

\* the value of a set of one element (binds a result once it is computed)
Only(S) == CHOOSE x \in S : TRUE

\* LossyLines::poll
LossyLinesPoll(io, buf, fail) ==
    Only({AfterRead(r) : r \in {ReadUntil(io, buf, fail)}})

\* ------------------------------------------- the stand-alone decoder (DecSpec)
VARIABLES dio, dbuf, dinput, dlines, dres

dvars == <<dio, dbuf, dinput, dlines, dres>>

\* the Runner's state, declared here because every action leaves it or sets it
VARIABLES head, restart, cmd, child, output, io,
          limit, written, got, delivered, spawns, result, polls, merged

svars == <<head, restart, cmd, child, output, io,
           limit, written, got, delivered, spawns, result, polls, merged>>
vars  == <<dvars, svars>>

DecIdle ==
    /\ dio = FreshIo
    /\ dbuf = <<>>
    /\ dinput = <<>>
    /\ dlines = <<>>
    /\ dres = [kind |-> "Init", raw |-> <<>>]

\* the source receives one more byte
DecFeed ==
    /\ ~dio.closed
    /\ Len(dinput) < MaxInput
    /\ \E b \in DecBytes :
          /\ dio' = [dio EXCEPT !.data = Append(@, b)]
          /\ dinput' = Append(dinput, b)
    /\ UNCHANGED <<dbuf, dlines, dres, svars>>

\* the write end of the source is closed
DecClose ==
    /\ ~dio.closed
    /\ dio' = [dio EXCEPT !.closed = TRUE]
    /\ UNCHANGED <<dbuf, dinput, dlines, dres, svars>>

\* one call of LossyLines::poll; the read may fail
DecPoll ==
    /\ \E fail \in BOOLEAN :
          LET r == LossyLinesPoll(dio, dbuf, fail)
          IN  /\ dio' = r.io
              /\ dbuf' = r.buffer
              /\ dres' = r.res
              /\ dlines' = IF r.res.kind = "Item" THEN Append(dlines, r.res.raw)
                            ELSE dlines
    /\ UNCHANGED <<dinput, svars>>

DecNext == DecFeed \/ DecClose \/ DecPoll

\* --------------------------------------------------- the merged stream (select)
\* state of `lossy_lines(stdout).select(lossy_lines(stderr))`: the round-robin
\* flag of Select, and per side the Fuse flag and the decoder's buffer; id is
\* the process whose pipes the stream reads
FreshOutput(pid) ==
    [id |-> pid, flag |-> FALSE, done |-> <<FALSE, FALSE>>, buffer |-> <<<<>>, <<>>>>]

Exhausted(out) == out.done[STDOUT] /\ out.done[STDERR]

\* Fuse: the result r of the decoder of side p is stored; None sets the flag
Fused(out, ios, p, r) ==
    [out  |-> [out EXCEPT !.buffer[p] = r.buffer, !.done[p] = (r.res.kind = "None")],
     io   |-> [ios EXCEPT ![p] = r.io],
     res  |-> r.res,
     pipe |-> p]

\* one side of the Select: a fused LossyLines, not polled again once it ended;
\* fails is the set of pipes whose read fails during this poll
FusePoll(out, ios, p, fails) ==
    IF out.done[p]
    THEN [out |-> out, io |-> ios, res |-> RNone, pipe |-> p]
    ELSE Only({Fused(out, ios, p, r) :
                 r \in {LossyLinesPoll(ios[p], out.buffer[p], p \in fails)}})

\* the end of the second side taken for the end of the merged stream
SelectSecondEager(a_done, rb) ==
    IF rb.res.kind \in {"Err", "None"} THEN rb
    ELSE IF rb.res.kind = "Item"
         THEN IF a_done THEN rb ELSE [rb EXCEPT !.out.flag = ~@]
    ELSE [rb EXCEPT !.res = RNotReady]

\* Select::poll, second half: rb is the poll of the side polled second
SelectSecond(a_done, rb) ==
    IF rb.res.kind = "Err" THEN rb
    ELSE IF rb.res.kind = "Item"
         THEN IF a_done THEN rb ELSE [rb EXCEPT !.out.flag = ~@]
    ELSE IF rb.res.kind = "None" /\ a_done THEN rb
    ELSE [rb EXCEPT !.res = RNotReady]

\* Select::poll, first half: ra is the poll of the side polled first, b the
\* other side
SelectFirst(ra, b, fails) ==
    IF ra.res.kind \in {"Err", "Item"} THEN ra
    ELSE Only({SelectSecond(ra.res.kind = "None", rb) :
                 rb \in {FusePoll(ra.out, ra.io, b, fails)}})

\* both sides polled stdout first at every poll, no round robin
SelectPollStdoutFirst(out, ios, fails) ==
    Only({SelectFirst(ra, STDERR, fails) : ra \in {FusePoll(out, ios, STDOUT, fails)}})

\* Select::poll: the side the flag names is polled first and the flag flips;
\* an item of the second side flips it back unless the first side has ended
SelectPoll(out, ios, fails) ==
    Only({SelectFirst(ra, IF out.flag THEN STDOUT ELSE STDERR, fails) :
            ra \in {FusePoll([out EXCEPT !.flag = ~out.flag], ios,
                             IF out.flag THEN STDERR ELSE STDOUT, fails)}})

\* the merged stream polled on its own (MergeSpec): what its last poll
\* returned and, for a line, the pipe it came from
MInit == [kind |-> "Init", pipe |-> 0]

\* ------------------------------------------------------------- the Runner

Cmds == {"adb logcat -b all"}

\* what a pull returns: Line is Ready(Some(Some(record))), Marker is
\* Ready(Some(None)), End is Ready(None)
\* (the record of a Line is the last element of got, why tells an I/O error
\* of the merged stream from a failed spawn)
ResInit     == [kind |-> "Init", why |-> ""]
ResLine     == [kind |-> "Line", why |-> ""]
ResMarker   == [kind |-> "Marker", why |-> ""]
ResEnd      == [kind |-> "End", why |-> ""]
ResNotReady == [kind |-> "NotReady", why |-> ""]
ResErr(why) == [kind |-> "Err", why |-> why]

\* the Runner and the process it owns, as one record (the loop of poll works
\* on it); written, got, delivered and spawns are history, as is limit, the
\* head the Runner was constructed with; polls lists what self.output.poll()
\* returned in each iteration of the loop of the current call
Cur ==
    [head |-> head, restart |-> restart, cmd |-> cmd, child |-> child,
     output |-> output, io |-> io, written |-> written, got |-> got,
     delivered |-> delivered, spawns |-> spawns, polls |-> <<>>]

SeqsUpTo(S, k) == UNION {[1..n -> S] : n \in 0..k}

\* what a process launched inside poll may have done before the first poll of
\* its pipes: written a few bytes, closed pipes
EarlyRuns ==
    {[data |-> d, closed |-> c] :
        d \in {x \in SeqsUpTo(SupBytes, MaxEarly) \X SeqsUpTo(SupBytes, MaxEarly) :
                 Len(x[1]) + Len(x[2]) <= MaxEarly},
        c \in BOOLEAN \X BOOLEAN}

\* Runner::run: a new process and the merged stream over its two pipes
Run(s, e) ==
    [s EXCEPT !.child   = [pid |-> s.spawns + 1, cmd |-> s.cmd],
              !.output  = FreshOutput(s.spawns + 1),
              !.io      = [p \in Pipes |->
                             [data |-> e.data[p], closed |-> e.closed[p]]],
              !.written = e.data,
              !.got     = <<<<>>, <<>>>>,
              !.spawns  = s.spawns + 1]

\* the budget check left out
HeadNeverExhausted(h) == FALSE

\* the budget check at the top of the loop
HeadExhausted(h) == h # <<>> /\ h[1] = 0

\* the decrement of the budget forgotten
DecHeadKept(h) == h

\* self.head.map(|c| c - 1)
DecHead(h) == IF h = <<>> THEN <<>> ELSE <<h[1] - 1>>

\* a line delivered at no cost
OnLineFree(s, p, raw) ==
    [st  |-> [s EXCEPT !.got[p] = Append(@, raw), !.delivered = @ + 1],
     res |-> ResLine]

\* Ready(Some(s)): the line is wrapped, the budget decremented
OnLine(s, p, raw) ==
    [st  |-> [s EXCEPT !.head = DecHead(s.head),
                       !.got[p] = Append(@, raw),
                       !.delivered = @ + 1],
     res |-> ResLine]

\* the budget is zero: Ready(None)
OnEnd(s) == [st |-> s, res |-> ResEnd]

\* exhaustion without restart reported as the end of the stream
OnMarkerAsEnd(s) == [st |-> s, res |-> ResEnd]

\* exhaustion without restart: Ready(Some(None))
OnMarker(s) == [st |-> s, res |-> ResMarker]

\* a pending poll that consumes budget
OnNotReadyConsumes(s) ==
    [st |-> [s EXCEPT !.head = DecHead(s.head)], res |-> ResNotReady]

\* Ok(Async::NotReady) => return Ok(Async::NotReady)
OnNotReady(s) == [st |-> s, res |-> ResNotReady]

\* an I/O error answered by launching the command again
OnErrorRespawns(s) ==
    [st  |-> IF s.restart /\ s.spawns < MaxSpawns
             THEN Run(s, [data |-> <<<<>>, <<>>>>, closed |-> <<FALSE, FALSE>>])
             ELSE s,
     res |-> ResErr("io")]

\* Err(e) => return Err(e.into())
OnError(s) == [st |-> s, res |-> ResErr("io")]

\* a failed spawn that has already replaced the child handle
OnSpawnErrorHalf(s) ==
    [st  |-> [s EXCEPT !.child = [pid |-> s.spawns + 1, cmd |-> s.cmd]],
     res |-> ResErr("spawn")]

\* Self::run(..)? failed inside poll: nothing is replaced
OnSpawnError(s) == [st |-> s, res |-> ResErr("spawn")]

\* the restart flag ignored
NeverRestart(s) == FALSE

\* the reads that fail during one poll of the merged stream: none, or the one
\* of a pipe (the first error ends the poll, so two failures are one)
Failures == {{}, {STDOUT}, {STDERR}}

\* `if self.restart` on exhaustion of the merged stream
ShouldRestart(s) == s.restart

\* the call returns: o.st is the Runner it leaves and o.res what the caller gets
Return(o) ==
    /\ head' = o.st.head
    /\ restart' = o.st.restart
    /\ cmd' = o.st.cmd
    /\ child' = o.st.child
    /\ output' = o.st.output
    /\ io' = o.st.io
    /\ written' = o.st.written
    /\ got' = o.st.got
    /\ delivered' = o.st.delivered
    /\ spawns' = o.st.spawns
    /\ polls' = o.st.polls
    /\ result' = o.res

RECURSIVE PollLoop(_)

\* a pending stream taken for an exhausted one
MatchRespawnsOnPending(s, r) ==
    IF r.res.kind = "Item" THEN Return(OnLine(s, r.pipe, r.res.raw))
    ELSE IF r.res.kind = "Err" THEN Return(OnError(s))
    ELSE IF ~ShouldRestart(s)
         THEN (IF r.res.kind = "NotReady" THEN Return(OnNotReady(s))
               ELSE Return(OnMarker(s)))
    ELSE /\ s.spawns < MaxSpawns
         /\ \/ Return(OnSpawnError(s))
            \/ \E e \in EarlyRuns : PollLoop(Run(s, e))

\* the match on self.output.poll(): s is the Runner after that poll and r
\* what the poll returned
Match(s, r) ==
    IF r.res.kind = "Item" THEN Return(OnLine(s, r.pipe, r.res.raw))
    ELSE IF r.res.kind = "NotReady" THEN Return(OnNotReady(s))
    ELSE IF r.res.kind = "Err" THEN Return(OnError(s))
    ELSE IF ~ShouldRestart(s) THEN Return(OnMarker(s))
    ELSE /\ s.spawns < MaxSpawns
         /\ \/ Return(OnSpawnError(s))
            \/ \E e \in EarlyRuns : PollLoop(Run(s, e))

\* the merged stream and the pipes after self.output.poll() returned r
Polled(s, r) ==
    Match([s EXCEPT !.output = r.out, !.io = r.io,
                    !.polls = Append(@, r.res.kind)], r)

\* the loop of Runner::poll, from the Runner s on; every poll of the merged
\* stream may meet a read error on either pipe
PollLoop(s) ==
    IF HeadExhausted(s.head) THEN Return(OnEnd(s))
    ELSE \E fails \in Failures :
            \E r \in {SelectPoll(s.output, s.io, fails)} : Polled(s, r)

Init ==
    /\ DecIdle
    /\ head \in Heads
    /\ restart \in BOOLEAN
    /\ cmd \in Cmds
    /\ child = [pid |-> 1, cmd |-> cmd]
    /\ output = FreshOutput(1)
    /\ io = [p \in Pipes |-> FreshIo]
    /\ limit = head
    /\ written = <<<<>>, <<>>>>
    /\ got = <<<<>>, <<>>>>
    /\ delivered = 0
    /\ spawns = 1
    /\ polls = <<>>
    /\ result = ResInit
    /\ merged = MInit

\* one call of Runner::poll by the consumer
Pull ==
    /\ PollLoop(Cur)
    /\ UNCHANGED <<dvars, limit, merged>>

\* the child writes one byte on one of its pipes
ChildWrite ==
    /\ Len(written[STDOUT]) + Len(written[STDERR]) < MaxBytes
    /\ \E p \in Pipes, b \in SupBytes :
          /\ ~io[p].closed
          /\ io' = [io EXCEPT ![p].data = Append(@, b)]
          /\ written' = [written EXCEPT ![p] = Append(@, b)]
    /\ UNCHANGED <<dvars, head, restart, cmd, child, output, limit, got,
                   delivered, spawns, result, polls, merged>>

\* the child closes one of its pipes (at the latest when it exits)
ChildClose ==
    /\ \E p \in Pipes :
          /\ ~io[p].closed
          /\ io' = [io EXCEPT ![p].closed = TRUE]
    /\ UNCHANGED <<dvars, head, restart, cmd, child, output, limit, written,
                   got, delivered, spawns, result, polls, merged>>

Next == Pull \/ ChildWrite \/ ChildClose

Spec == Init /\ [][Next]_vars

\* the stand-alone decoder runs with the Runner left as constructed
DecInit ==
    /\ DecIdle
    /\ head = <<>>
    /\ restart = FALSE
    /\ cmd \in Cmds
    /\ child = [pid |-> 1, cmd |-> cmd]
    /\ output = FreshOutput(1)
    /\ io = [p \in Pipes |-> FreshIo]
    /\ limit = head
    /\ written = <<<<>>, <<>>>>
    /\ got = <<<<>>, <<>>>>
    /\ delivered = 0
    /\ spawns = 1
    /\ polls = <<>>
    /\ result = ResInit
    /\ merged = MInit

DecSpec == DecInit /\ [][DecNext]_vars

\* ------------------------------------------- the merged stream alone (MergeSpec)
\* the stream of Runner::run under a consumer that keeps polling it, with a
\* child that writes without end; at most MaxBytes bytes of a pipe are unread
\* or buffered
runner ==
    <<dvars, head, restart, cmd, child, limit, written, got, delivered, spawns,
      result, polls>>

MergeWrite ==
    /\ \E p \in Pipes, b \in SupBytes :
          /\ ~io[p].closed
          /\ Len(output.buffer[p]) + Len(io[p].data) < MaxBytes
          /\ io' = [io EXCEPT ![p].data = Append(@, b)]
    /\ UNCHANGED <<runner, output, merged>>

MergeClose ==
    /\ \E p \in Pipes :
          /\ ~io[p].closed
          /\ io' = [io EXCEPT ![p].closed = TRUE]
    /\ UNCHANGED <<runner, output, merged>>

\* what the poll r of the merged stream leaves
MergePolledAs(r) ==
    /\ output' = r.out
    /\ io' = r.io
    /\ merged' = [kind |-> r.res.kind,
                  pipe |-> IF r.res.kind = "Item" THEN r.pipe ELSE 0]

\* self.output.poll()
MergePoll ==
    /\ \E fails \in Failures :
          \E r \in {SelectPoll(output, io, fails)} : MergePolledAs(r)
    /\ UNCHANGED runner

MergeNext == MergeWrite \/ MergeClose \/ MergePoll

\* the consumer polls again as long as a poll can do something
MergeSpec == DecInit /\ [][MergeNext]_vars /\ WF_vars(MergePoll)

\* ------------------------------------------------------------- the claims
\* the lines of a byte stream: the segments between newlines, lossily decoded,
\* and the unterminated segment after the last newline when it is not empty
RECURSIVE SplitLines(_, _)
SplitLines(bs, cur) ==
    IF bs = <<>> THEN (IF cur = <<>> THEN <<>> ELSE <<FromUtf8Lossy(cur)>>)
    ELSE IF Head(bs) = NL THEN <<FromUtf8Lossy(cur)>> \o SplitLines(Tail(bs), <<>>)
    ELSE SplitLines(Tail(bs), Append(cur, Head(bs)))

LinesOf(bs) == SplitLines(bs, <<>>)

\* a step in which Runner::poll ran and did more than return End again
Pulled == <<output, got, result>>' # <<output, got, result>>

\* C1: without restart and without head, the pull that follows the terminal
\* marker returns end-of-sequence; a terminal marker is never delivered twice.
C1_MarkerThenEnd ==
    [][(~restart /\ limit = <<>> /\ result.kind = "Marker" /\ Pulled)
         => result'.kind = "End"]_vars

\* C2: once the decoder has ended on an input whose last segment has no
\* newline, the lines it emitted are the segments of the input, the last one
\* with all of its bytes.
C2_UnterminatedTail ==
    (dres.kind = "None" /\ dinput # <<>> /\ dinput[Len(dinput)] # NL)
        => dlines = LinesOf(dinput)

\* C3: a Runner constructed with head = Some(n) never delivers more than n
\* lines, restarts included, and once it has delivered n the only results are
\* that n-th line and end-of-sequence.
C3_HeadCap ==
    limit # <<>> =>
        /\ delivered <= limit[1]
        /\ delivered = limit[1] => /\ head = <<0>>
                                   /\ result.kind \in {"Init", "Line", "End"}

C3_Witness ==
    /\ limit = <<2>>
    /\ restart
    /\ spawns >= 2
    /\ delivered = 2
    /\ result.kind = "End"

\* C4: a Runner constructed with head = Some(0) only ever returns
\* end-of-sequence: the merged stream is never polled (stream and pipes are as
\* the spawn left them), nothing is delivered and nothing is spawned.
C4_HeadZero ==
    limit = <<0>> =>
        /\ result.kind \in {"Init", "End"}
        /\ output = FreshOutput(1)
        /\ child.pid = 1
        /\ spawns = 1
        /\ delivered = 0
        /\ \A p \in Pipes : io[p].data = written[p]

C4_Witness ==
    /\ limit = <<0>>
    /\ restart
    /\ result.kind = "End"
    /\ written[STDOUT] # <<>>
    /\ io[STDOUT].closed /\ io[STDERR].closed

\* C5: without head, when a non-restarting run has ended, the lines delivered
\* from each pipe are the lines written on it, each once and in order.
C5_EveryLineOnce ==
    (~restart /\ limit = <<>> /\ result.kind = "Marker")
        => \A p \in Pipes : got[p] = LinesOf(written[p])

\* C6: with restart and without head no pull returns end-of-sequence or a
\* terminal marker, and unless a spawn failed no pull leaves the Runner on an
\* exhausted stream: the stream it holds is the one of the child it holds,
\* launched from the Runner's own command.
C6_RestartNeverEnds ==
    (restart /\ limit = <<>>) =>
        /\ result.kind \notin {"End", "Marker"}
        /\ result.why # "spawn" => ~Exhausted(output)
        /\ child = [pid |-> spawns, cmd |-> cmd]
        /\ output.id = child.pid

C6_Witness ==
    /\ restart /\ limit = <<>>
    /\ spawns = 2
    /\ result.kind = "Line"
    /\ got[STDOUT] # <<>>

\* C7: after a pull has returned an error, and after the terminal marker of a
\* run without restart, no pull delivers a line or a terminal marker and no
\* pull spawns a process.
C7_Absorbing ==
    [][(result.kind \in {"Err", "Marker"} /\ Pulled)
         => /\ result'.kind \notin {"Line", "Marker"}
            /\ spawns' = spawns]_vars

\* C8: a pull returns end-of-sequence only with a budget that is present and
\* zero.
C8_EndOnlyAtZero == result.kind = "End" => head = <<0>>

C8_Witness ==
    /\ result.kind = "End"
    /\ limit = <<2>>
    /\ ~restart

\* the poll of the merged stream that this pull starts with finds both
\* decoders at their end
WillExhaust ==
    \A p \in Pipes :
        \/ output.done[p]
        \/ /\ io[p].closed
           /\ io[p].data = <<>> /\ output.buffer[p] = <<>>

\* what a pull leaves of child and stream when the poll it returns from
\* replaces nothing: the pair held before the pull, or the pair of the last
\* respawn of this pull, which an exhaustion with restart set has caused
PairKeptOrRespawned ==
    /\ output'.id = child'.pid
    /\ \/ /\ spawns' = spawns
          /\ child' = child
          /\ output'.id = output.id
       \/ /\ restart /\ WillExhaust
          /\ spawns' > spawns
          /\ child' = [pid |-> spawns', cmd |-> cmd]

\* C9 as stated: a pull that returns an I/O error has spawned nothing and has
\* left child, stream and budget as they were.
C9_ErrorChangesNothing ==
    [][(result'.kind = "Err" /\ result'.why = "io" /\ Pulled)
         => /\ spawns' = spawns
            /\ child' = child
            /\ output'.id = output.id
            /\ head' = head]_vars

\* C9 amended: a pull that returns an I/O error leaves the budget unchanged,
\* and child and stream are the pair that was polled: no respawn follows the
\* error.
C9_ErrorStopsThePull ==
    [][(result'.kind = "Err" /\ result'.why = "io" /\ Pulled)
         => /\ head' = head /\ delivered' = delivered
            /\ restart' = restart /\ cmd' = cmd
            /\ PairKeptOrRespawned]_vars

C9_Witness ==
    /\ restart
    /\ result.kind = "Err" /\ result.why = "io"
    /\ spawns = 1
    /\ head = <<1>>
    /\ io[STDOUT].closed /\ io[STDERR].closed

\* C10 as stated: a pull that returns pending has spawned nothing, delivered
\* nothing and left budget, child, stream, command and restart flag as they
\* were.
C10_PendingChangesNothing ==
    [][(result'.kind = "NotReady" /\ Pulled)
         => /\ head' = head /\ delivered' = delivered
            /\ restart' = restart /\ cmd' = cmd
            /\ spawns' = spawns
            /\ child' = child
            /\ output'.id = output.id]_vars

\* C10 amended: a pull that returns pending delivers nothing and leaves
\* budget, command and restart flag unchanged; child and stream are the pair
\* that was polled.
C10_PendingKeepsBudget ==
    [][(result'.kind = "NotReady" /\ Pulled)
         => /\ head' = head /\ delivered' = delivered
            /\ restart' = restart /\ cmd' = cmd
            /\ PairKeptOrRespawned]_vars

C10_Witness ==
    /\ result.kind = "NotReady"
    /\ head = <<1>>
    /\ delivered = 1
    /\ output.buffer[STDOUT] # <<>>

\* the byte segments of a byte stream: what lies between newlines, and the
\* unterminated segment after the last newline when it is not empty
RECURSIVE SplitBytes(_, _)
SplitBytes(bs, cur) ==
    IF bs = <<>> THEN (IF cur = <<>> THEN <<>> ELSE <<cur>>)
    ELSE IF Head(bs) = NL THEN <<cur>> \o SplitBytes(Tail(bs), <<>>)
    ELSE SplitBytes(Tail(bs), Append(cur, Head(bs)))

\* UTF-8 of a code point below U+0800
Encoded(c) == IF c < 128 THEN <<c>> ELSE <<192 + (c \div 64), 128 + (c % 64)>>

\* bs starts with a well-formed sequence
StartsValid(bs) ==
    \/ bs[1] < 128
    \/ Len(bs) >= 2 /\ bs[1] \in 194..223 /\ bs[2] \in 128..191

\* line renders the bytes bs: every code point other than the replacement
\* marker stands for its own encoding at its position, every replacement
\* marker for one byte at which no well-formed sequence starts
RECURSIVE Renders(_, _)
Renders(bs, line) ==
    IF line = <<>> THEN bs = <<>>
    ELSE IF bs = <<>> THEN FALSE
    ELSE IF Head(line) = REPLACEMENT
         THEN ~StartsValid(bs) /\ Renders(Tail(bs), Tail(line))
    ELSE /\ Len(bs) >= Len(Encoded(Head(line)))
         /\ SubSeq(bs, 1, Len(Encoded(Head(line)))) = Encoded(Head(line))
         /\ Renders(SubSeq(bs, Len(Encoded(Head(line))) + 1, Len(bs)), Tail(line))

\* C11: once the decoder has ended, it has emitted exactly one line for every
\* segment of the input, well-formed or not, and each line renders the bytes
\* of its segment: valid parts unchanged, a replacement marker in the place of
\* every invalid byte, nothing dropped.
C11_LossyLine ==
    dres.kind = "None" =>
        /\ Len(dlines) = Len(SplitBytes(dinput, <<>>))
        /\ \A i \in 1..Len(dlines) : Renders(SplitBytes(dinput, <<>>)[i], dlines[i])

Consumed == SubSeq(dinput, 1, Len(dinput) - Len(dbuf) - Len(dio.data))

\* C13: after every poll of the decoder the buffer holds no newline; it is
\* empty after a line and after end-of-stream; after a pending result it holds
\* the bytes read so far of the current line: the input from the last newline
\* consumed up to the bytes not yet read.
C13_BufferShape ==
    dres.kind # "Init" =>
        /\ ~HasNL(dbuf)
        /\ dres.kind \in {"Item", "None"} => dbuf = <<>>
        /\ dres.kind = "NotReady" =>
              /\ dinput = Consumed \o dbuf \o dio.data
              /\ Consumed = <<>> \/ Consumed[Len(Consumed)] = NL

\* a pending poll in the middle of the second line
C13_Witness ==
    /\ dres.kind = "NotReady"
    /\ dbuf = <<97>>
    /\ Len(dlines) = 1
    /\ dio.data = <<>>

\* bs is a prefix of cs
IsPrefix(bs, cs) == Len(bs) <= Len(cs) /\ bs = SubSeq(cs, 1, Len(bs))

\* C14: on an input in which every line ends with a newline the decoder emits
\* the segments between the newlines, in order and one per newline (an empty
\* segment as an empty line), no emitted line holds a newline, and when the
\* decoder ends it has emitted exactly these lines and nothing after them.
C14_OneLinePerNewline ==
    (dinput = <<>> \/ dinput[Len(dinput)] = NL) =>
        /\ IsPrefix(dlines, LinesOf(dinput))
        /\ Len(LinesOf(dinput)) = Cardinality({i \in 1..Len(dinput) : dinput[i] = NL})
        /\ \A i \in 1..Len(dlines) : ~HasNL(dlines[i])
        /\ dres.kind = "None" => dlines = LinesOf(dinput)

\* a line and an empty line after it, both emitted, decoder ended
C14_Witness ==
    /\ dres.kind = "None"
    /\ dinput = <<97, NL, NL>>
    /\ dlines = <<<<97>>, <<>>>>

\* a step in which LossyLines::poll ran
DecPolled == dinput' = dinput /\ dio'.closed = dio.closed

\* the bytes of bs that belong to the current line
RestOfLine(bs) == IF HasNL(bs) THEN SubSeq(bs, 1, FirstNL(bs) - 1) ELSE bs

\* C15: the decoder ends exactly when the read returns zero bytes on an empty
\* buffer; a poll that would block returns pending, emits nothing and keeps
\* the bytes read; and the line emitted after a pending result in the middle
\* of it is the whole line, the bytes kept followed by the rest of the line.
C15_ChunkedLine ==
    [][DecPolled =>
         /\ dres'.kind = "None" => (dio.closed /\ dio.data = <<>> /\ dbuf = <<>>)
         /\ (dio.closed /\ dio.data = <<>> /\ dbuf = <<>>)
               => dres'.kind \in {"None", "Err"}
         /\ dres'.kind = "NotReady" => (dbuf' = dbuf \o dio.data /\ dlines' = dlines)
         /\ (dres.kind = "NotReady" /\ dbuf # <<>> /\ dres'.kind = "Item")
               => dlines' = Append(dlines, FromUtf8Lossy(dbuf \o RestOfLine(dio.data)))]_vars

\* C16: for a Runner constructed with head = Some(n) the remaining budget is
\* n minus the number of lines delivered and is never negative; the pull that
\* delivers a line lowers it by exactly one, and no other step changes it
\* (terminal marker, pending, error, respawn, end-of-sequence).
C16_Budget ==
    [][limit # <<>> =>
         /\ head' = <<limit[1] - delivered'>>
         /\ head'[1] >= 0
         /\ IF Pulled /\ result'.kind = "Line"
            THEN head' = <<head[1] - 1>> /\ delivered' = delivered + 1
            ELSE head' = head /\ delivered' = delivered]_vars

\* one line delivered, then a respawn and a pending result: budget still n - 1
C16_Witness ==
    /\ limit = <<2>>
    /\ head = <<1>>
    /\ delivered = 1
    /\ spawns = 2
    /\ result.kind = "NotReady"

\* the decoder of pipe p has a line to give at its next poll
LineReady(p) ==
    /\ ~output.done[p]
    /\ \/ HasNL(io[p].data)
       \/ io[p].closed /\ (io[p].data # <<>> \/ output.buffer[p] # <<>>)

\* a step in which the merged stream was polled
MergePolled ==
    \A p \in Pipes : /\ io'[p].closed = io[p].closed
                     /\ Len(io'[p].data) <= Len(io[p].data)

\* a poll of the merged stream that finds a pipe without a line ready
PolledNotBothReady == MergePolled /\ ~(LineReady(STDOUT) /\ LineReady(STDERR))

\* a poll of the merged stream that finds a line ready on one pipe only and
\* does not deliver it, without an I/O error
NotServed ==
    /\ MergePolled
    /\ merged'.kind # "Err"
    /\ \E p \in Pipes :
          /\ LineReady(p) /\ ~LineReady(3 - p)
          /\ merged' # [kind |-> "Item", pipe |-> p]

\* C17: neither pipe has priority in the merged stream: unless polls that find
\* a pipe without a line ready, or I/O errors, keep happening, lines of stdout
\* and lines of stderr are both delivered again and again; and a poll that
\* finds a line ready on one pipe only, the other pending or ended, delivers
\* that line.
C17_NoStarvation ==
    /\ \/ []<><<PolledNotBothReady>>_vars
       \/ []<>(merged.kind = "Err")
       \/ /\ []<>(merged = [kind |-> "Item", pipe |-> STDOUT])
          /\ []<>(merged = [kind |-> "Item", pipe |-> STDERR])
    /\ [][~NotServed]_vars

\* a line of stderr delivered while stdout has a line ready as well
C17_Witness ==
    /\ merged = [kind |-> "Item", pipe |-> STDERR]
    /\ LineReady(STDOUT)
    /\ LineReady(STDERR)
    /\ ~output.flag

\* C18: a pull in which the spawn of a restart fails returns the error with
\* the budget unchanged and leaves the child and the exhausted stream that it
\* held when the spawn was tried; in every step child and stream belong to the
\* same process, and the child changes only with a successful spawn.
C18_SpawnError ==
    [][/\ output'.id = child'.pid
       /\ child' # child => (spawns' > spawns /\ child'.pid = spawns')
       /\ (Pulled /\ result'.kind = "Err" /\ result'.why = "spawn")
             => /\ head' = head /\ delivered' = delivered
                /\ Exhausted(output')
                /\ PairKeptOrRespawned]_vars

\* the spawn has failed after the stream of a child respawned in the same
\* pull was found exhausted
C18_Witness ==
    /\ result.kind = "Err" /\ result.why = "spawn"
    /\ polls = <<"None", "None">>
    /\ spawns = 2 /\ child.pid = 2
    /\ Exhausted(output)

\* C19: at a budget of zero no step spawns a process or touches the child or
\* the merged stream; once the n-th line of head = Some(n) is delivered the
\* number of spawns stays as it is, also with restart set and a child that
\* has exited.
C19_NoSpawnAtZero ==
    [][(head = <<0>> \/ (limit # <<>> /\ delivered = limit[1]))
         => /\ spawns' = spawns
            /\ child' = child
            /\ output' = output]_vars

\* the n-th line is delivered, the child has exited unobserved, restart is
\* set, and a pull has returned end-of-sequence
C19_Witness ==
    /\ restart
    /\ limit = <<1>> /\ delivered = 1 /\ head = <<0>>
    /\ result.kind = "End"
    /\ ~Exhausted(output)
    /\ WillExhaust

\* what a pull returns when the last poll of the merged stream returned k
ReturnedFor(k, res) ==
    \/ k = "Item" /\ res.kind = "Line"
    \/ k = "NotReady" /\ res.kind = "NotReady"
    \/ k = "Err" /\ res = ResErr("io")
    \/ k = "None" /\ (res.kind = "Marker" \/ res = ResErr("spawn"))

\* C20: a pull returns at the first poll of a merged stream that gives a line,
\* pending or an error; only the exhaustion of a stream makes it go on, each
\* respawn is followed by one poll of the new stream, and a second respawn in
\* the same pull happens only when that first poll finds the new stream
\* exhausted.  The loop runs once more than the pull respawns, so it ends
\* unless every process respawned has closed both pipes by its first poll.
C20_PullReturns ==
    [][(Pulled \/ polls' # polls) =>
         IF polls' = <<>>
         THEN result'.kind = "End" /\ spawns' = spawns
         ELSE /\ \A i \in 1..(Len(polls') - 1) : polls'[i] = "None"
              /\ ReturnedFor(polls'[Len(polls')], result')
              /\ restart \/ Len(polls') = 1
              /\ spawns' - spawns = Len(polls') - 1]_vars

\* two respawns in one pull: the first new stream was exhausted at its first
\* poll, the second one is pending
C20_Witness ==
    /\ polls = <<"None", "None", "NotReady">>
    /\ spawns = 3
    /\ result.kind = "NotReady"

====
